---------------------------- MODULE Spec2Model ----------------------------
(***************************************************************************)
(* Model of proxmin/nmf.py: the step-size controller Steps_AS, the driver  *)
(* nmf, and the gradient / proximal operators of the NMF likelihood.       *)
(*                                                                         *)
(* Numbers.  slack is a rational  slack / SlackDen ; a Lipschitz constant  *)
(* is a non-negative integer (spectral norm times weight bound); a         *)
(* returned step size  slack / stored[j]  is the pair                      *)
(* <<slack, SlackDen * stored[j]>> (numerator, denominator), a zero        *)
(* denominator being the infinite quotient.  Comparisons of quotients are  *)
(* cross-multiplied, so the arithmetic is exact: Python's floats are read   *)
(* as the rationals they stand for, and rounding is not modelled.          *)
(***************************************************************************)
EXTENDS Integers, Sequences, FiniteSets, TLC

\* ------------------------------------------------------------- bounds
\* the iteration counter is not advanced beyond MaxIt
MaxIt == 4
\* spectral norms returned by utils.get_spectral_norm range over 0..MaxNorm
MaxNorm == 4
\* entries of the factor A of the likelihood functions range over 0..MaxEntry
MaxEntry == 1
\* the counter bound of the stride-clamp runs
ClampMaxIt == 27
\* denominator of the rational slack values
SlackDen == 4
\* default of the max_stride argument of Steps_AS.__init__
DefaultMaxStride == 100

\* Python's None (for an argument, an unset list entry, an unset attribute)
NONE == -1

Factor == {0, 1}

\* slack arguments, as numerators over SlackDen: 0, 1/4, 1/2, 1, 5/4
SlackArgs == {0, 1, 2, SlackDen, SlackDen + 1}
\* max_stride arguments of a directly constructed controller
MaxStrideArgs == {3}
\* Wmax / WAmax / WSmax arguments
WArgs == {NONE, 1, 2}
\* update_order arguments: None, or a list of factor indices
UpdateOrders == {<<>>, <<0, 1>>, <<1, 0>>}
\* spectral norms of the factors passed to a call
Norms == 0 .. MaxNorm

VARIABLES
    pc,             \* "start", "AssertionError", "solving", "raised", "returned"
    viaNmf,         \* the controller was built by nmf (not constructed directly)
    traceback,      \* nmf's traceback argument
    solved,         \* the solver's factor list [A, S] when it stops (<<>> before)
    stop,           \* why the solver stopped ("": it has not)
    out,            \* nmf's return value (<<>> before it returns)
    arg_slack,      \* the slack argument given to Steps_AS / nmf
    slack,          \* self.slack (numerator over SlackDen)
    WAmax, WSmax,   \* self.WAmax, self.WSmax
    max_stride,     \* self.max_stride
    advance_index,  \* self.advance_index
    it,             \* self.it
    stride,         \* self.stride
    last,           \* self.last
    stored,         \* self.stored
    arg_j,          \* j of the latest call of __call__
    arg_L,          \* Lipschitz constant of the Xs passed to the latest call
    due,            \* the latest call took the recompute branch
    ret,            \* step size returned by the latest call (<<>>: none)
    exc,            \* exception raised by the latest call ("none": none)
    div0,           \* the quotients of the latest call that had a zero divisor
    adv_calls,      \* number of calls made with j == advance_index
    returned,       \* per factor, the step size its latest call returned
    frame           \* arguments and result of the latest likelihood function

vars == <<pc, viaNmf, traceback, solved, stop, out, arg_slack, slack, WAmax, WSmax, max_stride,
          advance_index, it, stride, last, stored, arg_j, arg_L, due, ret, exc,
          div0, adv_calls, returned, frame>>

driver == <<solved, stop, out>>
config == <<slack, WAmax, WSmax, max_stride, advance_index>>
state == <<it, stride, last, stored>>
callrec == <<arg_j, arg_L, due, ret, exc, div0>>
history == <<adv_calls, returned>>

Abs(x) == IF x < 0 THEN -x ELSE x
Min(a, b) == IF a < b THEN a ELSE b
Max(a, b) == IF a > b THEN a ELSE b

\* ------------------------------------------------- matrices (2 x 2)
\* a matrix is the tuple of its rows
Idx == {1, 2}
Mat(vals) == {<<<<a, b>>, <<c, d>>>> : a \in vals, b \in vals, c \in vals, d \in vals}
Zero == <<<<0, 0>>, <<0, 0>>>>
\* the scalar weight W = 1, broadcast
Ones == <<<<1, 1>>, <<1, 1>>>>

\* P.dot(Q)
Dot(P, Q) ==
    <<<<P[1][1] * Q[1][1] + P[1][2] * Q[2][1], P[1][1] * Q[1][2] + P[1][2] * Q[2][2]>>,
      <<P[2][1] * Q[1][1] + P[2][2] * Q[2][1], P[2][1] * Q[1][2] + P[2][2] * Q[2][2]>>>>
\* P.T
Transpose(P) == <<<<P[1][1], P[2][1]>>, <<P[1][2], P[2][2]>>>>
\* P - Q
Minus(P, Q) ==
    <<<<P[1][1] - Q[1][1], P[1][2] - Q[1][2]>>, <<P[2][1] - Q[2][1], P[2][2] - Q[2][2]>>>>
\* P * Q, elementwise
Times(P, Q) ==
    <<<<P[1][1] * Q[1][1], P[1][2] * Q[1][2]>>, <<P[2][1] * Q[2][1], P[2][2] * Q[2][2]>>>>
\* c * P
Scale(c, P) == <<<<c * P[1][1], c * P[1][2]>>, <<c * P[2][1], c * P[2][2]>>>>

\* ------------------------------------------------- likelihood gradient
delta_data(A, S, Y, W) == Times(W, Minus(Dot(A, S), Y))

grad_likelihood_A_NoTranspose(A, S, Y, W) == Dot(delta_data(A, S, Y, W), S)

grad_likelihood_A(A, S, Y, W) == Dot(delta_data(A, S, Y, W), Transpose(S))

grad_likelihood_S(S, A, Y, W) == Dot(Transpose(A), delta_data(A, S, Y, W))

\* operators.prox_id and operators.prox_plus
Proxs == {"prox_id", "prox_plus"}
Prox(prox_g, X, step) ==
    IF prox_g = "prox_id" THEN X
    ELSE <<<<Max(X[1][1], 0), Max(X[1][2], 0)>>, <<Max(X[2][1], 0), Max(X[2][2], 0)>>>>

prox_likelihood_A(A, step, S, Y, prox_g, W) ==
    Prox(prox_g, Minus(A, Scale(step, grad_likelihood_A(A, S, Y, W))), step)

prox_likelihood_S(S, step, A, Y, prox_g, W) ==
    Prox(prox_g, Minus(S, Scale(step, grad_likelihood_S(S, A, Y, W))), step)

prox_likelihood_Swapped(X, step, Xs, j, Y, W, prox_S, prox_A) ==
    IF j = 0
    THEN prox_likelihood_A(X, step, Xs[2], Y, prox_S, W)
    ELSE prox_likelihood_S(X, step, Xs[1], Y, prox_A, W)

\* Xs = [A, S]: Xs[0] is Xs[1] here, Xs[1] is Xs[2]
prox_likelihood(X, step, Xs, j, Y, W, prox_S, prox_A) ==
    IF j = 0
    THEN prox_likelihood_A(X, step, Xs[2], Y, prox_A, W)
    ELSE prox_likelihood_S(X, step, Xs[1], Y, prox_S, W)

\* the inputs of the likelihood functions
AMats == Mat(0 .. MaxEntry)
SMats == Mat({0, 1})
YMats == {<<<<1, 0>>, <<2, 1>>>>, <<<<0, -1>>, <<1, 1>>>>}
WMats == {Ones, <<<<1, 2>>, <<0, 1>>>>}
Steps == {1, 2}

\* no matrix: W is None
NoMat == <<>>

NoFrame ==
    [op |-> "none", A |-> Zero, S |-> Zero, Y |-> Zero, W |-> Ones,
     X |-> Zero, step |-> 0, j |-> NONE, prox_A |-> "", prox_S |-> "",
     res |-> Zero,
     Wmax |-> NONE, WAmax |-> NONE, WSmax |-> NONE, update_order |-> <<>>,
     f_W |-> NoMat]

\* ------------------------------------------------- Steps_AS.__init__
\* assert slack > 0 and slack <= 1
SlackOKInclusive(s) == s >= 0 /\ s <= SlackDen

SlackOK(s) == s > 0 /\ s <= SlackDen

ResolveWSWmaxFirst(ws, wa, wm) ==
    IF wm # NONE THEN wm ELSE IF ws # NONE THEN ws ELSE 1

ResolveWA(wa, wm) == IF wa = NONE THEN (IF wm = NONE THEN 1 ELSE wm) ELSE wa

\* the first branch may have set Wmax = 1 already
ResolveWS(ws, wa, wm) ==
    LET wm1 == IF wa = NONE /\ wm = NONE THEN 1 ELSE wm
    IN  IF ws = NONE THEN (IF wm1 = NONE THEN 1 ELSE wm1) ELSE ws

AdvanceIndexFirst(uo) == IF uo = <<>> THEN 1 ELSE uo[1]

AdvanceIndex(uo) == IF uo = <<>> THEN 1 ELSE uo[Len(uo)]

Steps_AS_init(s, wm, ms, uo, wa, ws) ==
    /\ arg_slack' = s
    /\ IF ~SlackOK(s)
       THEN /\ pc' = "AssertionError"
            /\ UNCHANGED <<config, state, history>>
       ELSE /\ pc' = "solving"
            /\ slack' = s
            /\ WAmax' = ResolveWA(wa, wm)
            /\ WSmax' = ResolveWS(ws, wa, wm)
            /\ max_stride' = ms
            /\ advance_index' = AdvanceIndex(uo)
            /\ it' = 0
            /\ stride' = [k \in Factor |-> 1]
            /\ last' = [k \in Factor |-> -1]
            /\ stored' = [k \in Factor |-> NONE]
            /\ adv_calls' = 0
            /\ returned' = [k \in Factor |-> <<>>]

\* a controller constructed directly: Steps_AS(slack, Wmax, max_stride, ...)
NewSteps ==
    /\ pc = "start"
    /\ \E s \in SlackArgs, wm \in WArgs, ms \in MaxStrideArgs,
          uo \in UpdateOrders, wa \in WArgs, ws \in WArgs :
          /\ Steps_AS_init(s, wm, ms, uo, wa, ws)
    /\ viaNmf' = FALSE
    /\ UNCHANGED <<traceback, driver, callrec, frame>>

\* ------------------------------------------------------------ nmf
\* W is None, or a weight matrix (given by its largest entry, W.max())
WeightArgs == {NONE, 2}

NmfWmax(W) == IF W # NONE THEN W ELSE 1

\* lines 144-149: steps_f = Steps_AS(Wmax=Wmax, slack=slack, update_order=update_order)
Nmf ==
    /\ pc = "start"
    /\ \E W \in WeightArgs, s \in SlackArgs, uo \in UpdateOrders :
          Steps_AS_init(s, NmfWmax(W), DefaultMaxStride, uo, NONE, NONE)
    /\ viaNmf' = TRUE
    /\ traceback' \in BOOLEAN
    /\ UNCHANGED <<driver, callrec, frame>>

\* ------------------------------------------------- Steps_AS.__call__
DueLate(j) == it > last[j] + stride[j]

Due(j) == it >= last[j] + stride[j]

\* L = get_spectral_norm(other factor) * weight bound
Lipschitz(j, n) == IF j = 0 THEN n * WAmax ELSE n * WSmax

AdvanceAlways(j) == it + 1

AdvanceWhenDue(j) == IF j = advance_index /\ Due(j) THEN it + 1 ELSE it

Advance(j) == IF j = advance_index THEN it + 1 ELSE it

\* rel_error < budget and rel_error > 0, with rel_error = |st - l| / st and
\* budget = (1 - slack) / 2.  For st = 0 numpy's quotient is inf or nan and
\* the test is false.
SmallRelError(st, l) ==
    /\ st > 0
    /\ Abs(st - l) * 2 * SlackDen < (SlackDen - slack) * st
    /\ Abs(st - l) > 0

GrowthNoStride(s, st, l) ==
    ((SlackDen - slack) * st) \div (2 * SlackDen * Abs(st - l))

\* int(budget / rel_error * stride)
Growth(s, st, l) ==
    ((SlackDen - slack) * st * s) \div (2 * SlackDen * Abs(st - l))

NewStrideNoClamp(s, st, l) ==
    IF SmallRelError(st, l) THEN s + Max(1, Growth(s, st, l)) ELSE s

NewStride(s, st, l) ==
    IF SmallRelError(st, l)
    THEN Min(max_stride, s + Max(1, Growth(s, st, l)))
    ELSE s

StepSizeInverted(s, st) == <<SlackDen, s * st>>

\* slack / stored[j]
StepSize(s, st) == <<s, SlackDen * st>>

ReturnGuarded(st) ==
    IF st = NONE
    THEN ret' = <<>> /\ exc' = "TypeError"
    ELSE ret' = StepSize(slack, IF st = 0 THEN 1 ELSE st) /\ exc' = "none"

\* line 99, with st the value of stored[j] it reads
Return(st) ==
    IF st = NONE
    THEN ret' = <<>> /\ exc' = "TypeError"
    ELSE IF st = 0
    THEN \/ ret' = StepSize(slack, st) /\ exc' = "none"
         \/ ret' = <<>> /\ exc' = "ZeroDivisionError"
    ELSE ret' = StepSize(slack, st) /\ exc' = "none"

Raised == exc' # "none" /\ viaNmf

\* the counter is advanced only below the bound
Below(j, bound) == j = advance_index => it < bound

SetAll(list, j, v) == [k \in DOMAIN list |-> v]

\* a list with item j assigned: list[j] = v
SetItem(list, j, v) == [list EXCEPT ![j] = v]

\* the divisions of a call whose divisor, the stored[j] they read, is zero:
\* the relative error of line 89 (st: stored[j] at entry) and the step of
\* line 99 (st1: stored[j] at the return)
ZeroDivisors(j, st, st1) ==
    {q \in {"rel_error", "step"} :
        \/ q = "rel_error" /\ Due(j) /\ Advance(j) > 1 /\ slack < SlackDen /\ st = 0
        \/ q = "step" /\ st1 = 0}

Call(j, n) ==
    /\ pc = "solving"
    /\ arg_j' = j
    /\ arg_L' = Lipschitz(j, n)
    /\ due' = Due(j)
    /\ it' = Advance(j)
    /\ adv_calls' = IF j = advance_index THEN adv_calls + 1 ELSE adv_calls
    /\ IF Due(j)
       THEN /\ last' = SetItem(last, j, it)
            /\ IF Advance(j) > 1 /\ slack < SlackDen
               THEN IF stored[j] = NONE
                    THEN \* line 89 raises: None - L
                         /\ ret' = <<>> /\ exc' = "TypeError"
                         /\ UNCHANGED <<stride, stored>>
                    ELSE /\ stride' = SetItem(stride, j,
                                NewStride(stride[j], stored[j], Lipschitz(j, n)))
                         /\ stored' = SetItem(stored, j, Lipschitz(j, n))
                         /\ Return(Lipschitz(j, n))
               ELSE /\ stored' = SetItem(stored, j, Lipschitz(j, n))
                    /\ Return(Lipschitz(j, n))
                    /\ UNCHANGED stride
       ELSE /\ Return(stored[j])
            /\ UNCHANGED <<stride, last, stored>>
    /\ div0' = ZeroDivisors(j, stored[j], stored'[j])
    /\ returned' = SetItem(returned, j, ret')
    /\ pc' = IF Raised THEN "raised" ELSE pc
    /\ UNCHANGED <<viaNmf, traceback, driver, arg_slack, config, frame>>

CallA == Below(0, MaxIt) /\ \E n \in Norms : Call(0, n)
CallS == Below(1, MaxIt) /\ \E n \in Norms : Call(1, n)

\* ------------------------------------------------- nmf, lines 155-163
\* final factor lists of the solver: [A, S]
FinalXs == {<<"A0", "S0">>, <<"A1", "S0">>, <<"A1", "S1">>}
\* the solver stops on its residual criterion or at max_iter
StopReasons == {"converged", "max_iter"}

\* algorithms.bsdmm's return value: the factor list, with the trace when
\* traceback is set
Bsdmm(X, tb) == IF tb THEN <<X, "trace">> ELSE X

NmfResultSwapped(res, tb) ==
    IF ~tb THEN <<res[2], res[1]>> ELSE <<res[1][2], res[1][1], res[2]>>

\* lines 160-163
NmfResult(res, tb) ==
    IF ~tb THEN <<res[1], res[2]>> ELSE <<res[1][1], res[1][2], res[2]>>

NmfReturn ==
    /\ pc = "solving"
    /\ viaNmf
    /\ \E X \in FinalXs, why \in StopReasons :
          /\ solved' = X
          /\ stop' = why
          /\ out' = NmfResult(Bsdmm(X, traceback), traceback)
    /\ pc' = "returned"
    \* steps_f is a local of nmf: the controller is gone when nmf returns
    /\ slack' = NONE /\ WAmax' = NONE /\ WSmax' = NONE
    /\ max_stride' = NONE /\ advance_index' = NONE
    /\ it' = NONE
    /\ stride' = <<>> /\ last' = <<>> /\ stored' = <<>>
    /\ arg_j' = NONE /\ arg_L' = NONE /\ due' = FALSE
    /\ ret' = <<>> /\ exc' = "none" /\ div0' = {}
    /\ adv_calls' = NONE /\ returned' = <<>>
    /\ UNCHANGED <<viaNmf, traceback, arg_slack, frame>>

Init ==
    /\ pc = "start"
    /\ viaNmf = FALSE
    /\ traceback = FALSE
    /\ solved = <<>> /\ stop = "" /\ out = <<>>
    /\ arg_slack = NONE
    /\ slack = NONE /\ WAmax = NONE /\ WSmax = NONE
    /\ max_stride = NONE /\ advance_index = NONE
    /\ it = NONE
    /\ stride = <<>> /\ last = <<>> /\ stored = <<>>
    /\ adv_calls = NONE /\ returned = <<>>
    /\ arg_j = NONE /\ arg_L = NONE /\ due = FALSE
    /\ ret = <<>> /\ exc = "none" /\ div0 = {}
    /\ frame = NoFrame

Next == NewSteps \/ Nmf \/ CallA \/ CallS \/ NmfReturn

Spec == Init /\ [][Next]_vars

\* ------------------------------------------------------------------
\* The stride clamp: a controller Steps_AS(slack, max_stride=10) called by
\* the solver's sweep (each factor once per iteration, in update_order),
\* on factors whose L changes a little from each recomputation to the next.
\* ------------------------------------------------------------------
ClampMaxStride == 10

\* norms whose relative changes are positive and below the budget of ClampSlack
ClampNorms == {MaxNorm - 1, MaxNorm}
ClampSlack == 1

InitClamp ==
    /\ pc = "solving"
    /\ viaNmf = FALSE
    /\ traceback = FALSE
    /\ solved = <<>> /\ stop = "" /\ out = <<>>
    /\ arg_slack = ClampSlack
    /\ slack = ClampSlack
    /\ WAmax = 1 /\ WSmax = 1
    /\ max_stride = ClampMaxStride
    /\ advance_index \in Factor
    /\ it = 0
    /\ stride = [k \in Factor |-> 1]
    /\ last = [k \in Factor |-> -1]
    /\ stored = [k \in Factor |-> NONE]
    /\ adv_calls = 0 /\ returned = [k \in Factor |-> <<>>]
    /\ arg_j = NONE /\ arg_L = NONE /\ due = FALSE
    /\ ret = <<>> /\ exc = "none" /\ div0 = {}
    /\ frame = NoFrame

\* the solver calls the factors in turn, the advance_index factor last
InSweep(j) == j = IF arg_j = NONE THEN 1 - advance_index ELSE 1 - arg_j

\* every relative error the call evaluates (line 89) is small
NearZeroRelError(j, n) ==
    (Due(j) /\ Advance(j) > 1) => SmallRelError(stored[j], Lipschitz(j, n))

ClampCall(j) ==
    /\ InSweep(j)
    /\ Below(j, ClampMaxIt)
    /\ \E n \in ClampNorms : NearZeroRelError(j, n) /\ Call(j, n)

ClampCallA == ClampCall(0)
ClampCallS == ClampCall(1)

NextClamp == ClampCallA \/ ClampCallS

\* the solver's loop goes on: a call that can be made is made
SpecClamp == InitClamp /\ [][NextClamp]_vars /\ WF_vars(NextClamp)

\* ------------------------------------------------------------------
\* The likelihood functions on bounded matrices.
\* ------------------------------------------------------------------
ctl == <<pc, viaNmf, traceback, solved, stop, out, arg_slack, slack, WAmax, WSmax,
         max_stride, advance_index, it, stride, last, stored, arg_j, arg_L,
         due, ret, exc, div0, adv_calls, returned>>

InitGrad ==
    /\ pc = "start"
    /\ viaNmf = FALSE
    /\ traceback = FALSE
    /\ solved = <<>> /\ stop = "" /\ out = <<>>
    /\ arg_slack = NONE
    /\ slack = NONE /\ WAmax = NONE /\ WSmax = NONE
    /\ max_stride = NONE /\ advance_index = NONE
    /\ it = NONE
    /\ stride = <<>> /\ last = <<>> /\ stored = <<>>
    /\ adv_calls = NONE /\ returned = <<>>
    /\ arg_j = NONE /\ arg_L = NONE /\ due = FALSE
    /\ ret = <<>> /\ exc = "none" /\ div0 = {}
    /\ \E A \in AMats, S \in SMats, Y \in YMats, W \in WMats :
          frame = [NoFrame EXCEPT !.op = "input", !.A = A, !.S = S, !.Y = Y, !.W = W]

GradLikelihoodA ==
    /\ frame.op = "input"
    /\ frame' = [frame EXCEPT
          !.op = "grad_likelihood_A",
          !.res = grad_likelihood_A(frame.A, frame.S, frame.Y, frame.W)]
    /\ UNCHANGED ctl

GradLikelihoodS ==
    /\ frame.op = "input"
    /\ frame' = [frame EXCEPT
          !.op = "grad_likelihood_S",
          !.res = grad_likelihood_S(frame.S, frame.A, frame.Y, frame.W)]
    /\ UNCHANGED ctl

\* the solver passes the factor list Xs = [A, S] and the factor X to update:
\* Xs[j], or another point (the accelerated update)
ProxLikelihood ==
    /\ frame.op = "input"
    /\ \E j \in Factor, step \in Steps, prox_A \in Proxs, prox_S \in Proxs :
       \E X \in {IF j = 0 THEN frame.A ELSE frame.S, frame.Y} :
          frame' = [frame EXCEPT
              !.op = "prox_likelihood",
              !.X = X, !.step = step, !.j = j,
              !.prox_A = prox_A, !.prox_S = prox_S,
              !.res = prox_likelihood(X, step, <<frame.A, frame.S>>, j,
                                      frame.Y, frame.W, prox_S, prox_A)]
    /\ UNCHANGED ctl

NextGrad == GradLikelihoodA \/ GradLikelihoodS \/ ProxLikelihood

SpecGrad == InitGrad /\ [][NextGrad]_vars

\* ------------------------------------------------------------------
\* The arguments of the constructor: Steps_AS(Wmax, WAmax, WSmax,
\* update_order) and nmf(W, update_order) applied to arguments that are
\* kept in frame, followed by the first iterations of the solver.
\* ------------------------------------------------------------------
InitMaxIt == 3

\* W.max()
MatMax(M) == Max(Max(M[1][1], M[1][2]), Max(M[2][1], M[2][2]))

InitArgs ==
    /\ pc = "start"
    /\ viaNmf = FALSE
    /\ traceback = FALSE
    /\ solved = <<>> /\ stop = "" /\ out = <<>>
    /\ arg_slack = NONE
    /\ slack = NONE /\ WAmax = NONE /\ WSmax = NONE
    /\ max_stride = NONE /\ advance_index = NONE
    /\ it = NONE
    /\ stride = <<>> /\ last = <<>> /\ stored = <<>>
    /\ adv_calls = NONE /\ returned = <<>>
    /\ arg_j = NONE /\ arg_L = NONE /\ due = FALSE
    /\ ret = <<>> /\ exc = "none" /\ div0 = {}
    /\ \E uo \in UpdateOrders :
          \/ \E wm \in WArgs, wa \in WArgs, ws \in WArgs :
                frame = [NoFrame EXCEPT !.op = "Steps_AS", !.Wmax = wm,
                            !.WAmax = wa, !.WSmax = ws, !.update_order = uo]
          \/ \E W \in WMats \cup {NoMat} :
                frame = [NoFrame EXCEPT !.op = "nmf", !.W = W,
                            !.update_order = uo]

StepsOfArgs ==
    /\ pc = "start"
    /\ frame.op = "Steps_AS"
    /\ \E s \in SlackArgs, ms \in MaxStrideArgs :
          Steps_AS_init(s, frame.Wmax, ms, frame.update_order,
                        frame.WAmax, frame.WSmax)
    /\ viaNmf' = FALSE
    /\ UNCHANGED <<traceback, driver, callrec, frame>>

\* lines 145-153: Wmax = W.max(), or W = Wmax = 1 (the scalar weight 1 is
\* the matrix Ones here); f is the likelihood update with this W
NmfOfArgs ==
    /\ pc = "start"
    /\ frame.op = "nmf"
    /\ \E s \in SlackArgs :
          Steps_AS_init(s, NmfWmax(IF frame.W = NoMat THEN NONE ELSE MatMax(frame.W)),
                        DefaultMaxStride, frame.update_order, NONE, NONE)
    /\ frame' = [frame EXCEPT !.f_W = IF frame.W = NoMat THEN Ones ELSE frame.W]
    /\ viaNmf' = TRUE
    /\ traceback' \in BOOLEAN
    /\ UNCHANGED <<driver, callrec>>

\* norms of the factors: zero, and two whose relative change is small
InitNorms == {0} \cup ClampNorms

InitCallA == Below(0, InitMaxIt) /\ \E n \in InitNorms : Call(0, n)
InitCallS == Below(1, InitMaxIt) /\ \E n \in InitNorms : Call(1, n)

NextInit == StepsOfArgs \/ NmfOfArgs \/ InitCallA \/ InitCallS

SpecInit == InitArgs /\ [][NextInit]_vars

\* ==================================================================
\* Properties
\* ==================================================================
Solving == pc = "solving"
\* the latest call returned a step size  ret[1] / ret[2]
Returned == Solving /\ arg_j \in Factor /\ ret # <<>>

\* C1 (as stated): every returned (finite) step size is at most 1/L for the
\* L of the factors passed to that call, cached calls included:
\* ret[1]/ret[2] <= 1/arg_L.
C1_StepBelowCurrentBound ==
    (Returned /\ ret[2] > 0) => ret[1] * arg_L <= ret[2]

\* C1 (amended): a call that recomputes returns a step of at most 1/L for the
\* L of the factors passed to it; every call returns a step of at most
\* 1/stored[j], the bound of the latest recomputation for j.
C1_StepBelowStoredBound ==
    Returned =>
        /\ due => ret[1] * arg_L <= ret[2]
        /\ ret[1] * stored[arg_j] <= ret[2]

C1_Witness ==
    Returned /\ ~due /\ stored[arg_j] > 0 /\ arg_L > 0 /\ slack < SlackDen

\* C2: no call reads stored[j] before it has been written (no TypeError
\* from the None of Steps_AS.__init__).
C2_NoUninitializedRead ==
    exc # "TypeError"

\* C3: over calls, it never decreases, grows by at most 1 per call, and
\* grows only in a call whose j is advance_index.
C3_ItMonotone ==
    [][(Solving /\ pc' # "returned") =>
          /\ it' >= it
          /\ it' <= it + 1
          /\ (it' # it => arg_j' = advance_index)]_vars

C3_Witness ==
    Solving /\ it >= 2 /\ due /\ arg_j \in Factor /\ arg_j # advance_index

\* C4: for slack < 1, stride[j] never decreases from one call to the next
\* and 1 <= stride[j] <= max_stride in every reachable state.
C4_StrideMonotoneBounded ==
    /\ [](Solving /\ slack < SlackDen =>
            \A k \in Factor : 1 <= stride[k] /\ stride[k] <= max_stride)
    /\ [][(Solving /\ pc' # "returned" /\ slack < SlackDen) =>
            \A k \in Factor : stride'[k] >= stride[k]]_vars

C4_Witness ==
    /\ Solving /\ slack < SlackDen /\ due /\ arg_j \in Factor
    /\ stride[arg_j] = max_stride
    /\ stride[1 - arg_j] > 1 /\ stride[1 - arg_j] < max_stride

\* C5: with slack < 1, max_stride = 10 and stride[j] = 1 at the start, if
\* every recomputation sees 0 < rel_error < budget, then stride[j] reaches
\* exactly 10 and keeps it ever after.
C5_StrideSaturates ==
    <>[](\A k \in Factor : stride[k] = ClampMaxStride)

\* a recomputation after the stride has reached 10
C5_Witness ==
    /\ Solving /\ max_stride = ClampMaxStride /\ slack < SlackDen
    /\ due /\ arg_j \in Factor
    /\ \A k \in Factor : stride[k] = ClampMaxStride
    /\ last[arg_j] > ClampMaxStride

\* ||P.S - Y||^2, the objective as a function of the first factor
Objective(P) ==
    LET D == Minus(Dot(P, frame.S), frame.Y)
    IN  D[1][1] * D[1][1] + D[1][2] * D[1][2] + D[2][1] * D[2][1] + D[2][2] * D[2][2]

\* A with h added to its entry (i, k)
Bump(P, i, k, h) ==
    [r \in Idx |-> [c \in Idx |-> IF r = i /\ c = k THEN P[r][c] + h ELSE P[r][c]]]

\* twice the central difference quotient of the objective at entry (i, k),
\* (f(A + E) - f(A - E)) / 2 with h = 1, exact for a quadratic
TwiceCentralDiff(i, k) ==
    Objective(Bump(frame.A, i, k, 1)) - Objective(Bump(frame.A, i, k, -1))

GradAComputed == frame.op = "grad_likelihood_A" /\ frame.W = Ones

\* C6 (as stated): with W = 1, grad_likelihood_A(A, S, Y) is the
\* finite-difference gradient of ||A.S - Y||^2 with respect to A.
C6_GradIsFiniteDiff ==
    GradAComputed =>
        \A i \in Idx, k \in Idx : 2 * frame.res[i][k] = TwiceCentralDiff(i, k)

\* C6 (amended): with W = 1, grad_likelihood_A(A, S, Y) is half the
\* finite-difference gradient of ||A.S - Y||^2, the gradient of
\* (1/2) ||A.S - Y||^2.
C6_GradIsHalfFiniteDiff ==
    GradAComputed =>
        \A i \in Idx, k \in Idx : 4 * frame.res[i][k] = TwiceCentralDiff(i, k)

C6_Witness ==
    /\ GradAComputed
    /\ \A i \in Idx, k \in Idx : frame.res[i][k] # 0
    /\ frame.res[1][2] # frame.res[2][1]
    /\ frame.S[1][2] # frame.S[2][1]

\* entry (i, k) of the gradient step on A at X: X - step * (W * (X.S - Y)).S^T
StepA(i, k) ==
    LET f == frame
        d(n) == f.W[i][n] * (f.X[i][1] * f.S[1][n] + f.X[i][2] * f.S[2][n] - f.Y[i][n])
    IN  f.X[i][k] - f.step * (d(1) * f.S[k][1] + d(2) * f.S[k][2])

\* entry (i, k) of the gradient step on S at X: X - step * A^T.(W * (A.X - Y))
StepS(i, k) ==
    LET f == frame
        d(m) == f.W[m][k] * (f.A[m][1] * f.X[1][k] + f.A[m][2] * f.X[2][k] - f.Y[m][k])
    IN  f.X[i][k] - f.step * (f.A[1][i] * d(1) + f.A[2][i] * d(2))

Project(prox_g, x) == IF prox_g = "prox_plus" /\ x < 0 THEN 0 ELSE x

\* C7: prox_likelihood is the gradient step on the factor j followed by the
\* projection of that factor: prox_A for j = 0, prox_S for j = 1; with the
\* identity projection it is the plain gradient step.
C7_ProxIsProjectedGradStep ==
    frame.op = "prox_likelihood" =>
        \A i \in Idx, k \in Idx :
            frame.res[i][k] =
                IF frame.j = 0 THEN Project(frame.prox_A, StepA(i, k))
                               ELSE Project(frame.prox_S, StepS(i, k))

C7_Witness ==
    /\ frame.op = "prox_likelihood"
    /\ frame.j = 1 /\ frame.prox_S = "prox_plus" /\ frame.prox_A = "prox_id"
    /\ frame.W # Ones
    /\ \E i \in Idx, k \in Idx : StepS(i, k) < 0
    /\ \E i \in Idx, k \in Idx : StepS(i, k) > 0 /\ StepS(i, k) # frame.X[i][k]

\* C8: a slack outside (0,1] fails the construction (AssertionError) before
\* any controller state exists, any step size is computed or the solver has
\* run; every slack in (0,1] is accepted.
C8_SlackChecked ==
    pc # "start" =>
        /\ pc = "AssertionError" <=> ~(arg_slack > 0 /\ arg_slack <= SlackDen)
        /\ pc = "AssertionError" =>
              /\ slack = NONE /\ it = NONE
              /\ stride = <<>> /\ last = <<>> /\ stored = <<>>
              /\ arg_j = NONE /\ ret = <<>>
              /\ stop = "" /\ out = <<>>

C8_Witness ==
    pc = "AssertionError" /\ viaNmf /\ arg_slack > SlackDen

\* C9: the step size reported for factor j changes only if the relative
\* change of L exceeds (1-slack)/2; with a relative change of at most that,
\* the call returns the previous step size slack/stored[j].
C9_UpdateOnlyAboveBudget ==
    [][(/\ Solving /\ pc' = "solving" /\ ret' # <<>>
        /\ stored[arg_j'] # NONE /\ stored[arg_j'] > 0
        /\ Abs(stored[arg_j'] - arg_L') * 2 * SlackDen
              <= (SlackDen - slack) * stored[arg_j'])
       => ret' = <<slack, SlackDen * stored[arg_j']>>]_vars

\* C10: nmf returns (A, S), the solver's final factors 0 and 1, and
\* (A, S, trace) under traceback; the solver stopping at max_iter is a
\* normal return.
C10_NmfReturnsFactors ==
    /\ pc = "returned" =>
          out = IF traceback THEN <<solved[1], solved[2], "trace">>
                             ELSE <<solved[1], solved[2]>>
    /\ stop = "max_iter" => pc = "returned"

C10_Witness ==
    pc = "returned" /\ traceback /\ stop = "max_iter" /\ solved = <<"A1", "S0">>

\* C11: the weight bounds of the controller are the given WAmax and WSmax,
\* else the given Wmax, else 1, for every combination of given and absent
\* arguments; through nmf both are max(W), or 1 when W is None (and the
\* likelihood then runs with W = 1); L of factor A is a norm times WAmax, L of
\* factor S a norm times WSmax.
GivenOr(w, wm) == IF w # NONE THEN w ELSE IF wm # NONE THEN wm ELSE 1
IsMaxOf(m, W) ==
    /\ \A r \in 1..2, c \in 1..2 : W[r][c] <= m
    /\ \E r \in 1..2, c \in 1..2 : W[r][c] = m
C11_WeightBounds ==
    Solving =>
        /\ frame.op = "Steps_AS" =>
              /\ WAmax = GivenOr(frame.WAmax, frame.Wmax)
              /\ WSmax = GivenOr(frame.WSmax, frame.Wmax)
        /\ frame.op = "nmf" =>
              /\ WAmax = WSmax
              /\ IF frame.W = NoMat
                 THEN WAmax = 1 /\ frame.f_W = Ones
                 ELSE IsMaxOf(WAmax, frame.W) /\ frame.f_W = frame.W
        /\ arg_j = 0 => arg_L % WAmax = 0
        /\ arg_j = 1 => arg_L % WSmax = 0
C11_Witness ==
    /\ Solving /\ frame.op = "Steps_AS"
    /\ frame.WAmax = NONE /\ frame.Wmax = NONE /\ frame.WSmax = 2
    /\ WAmax = 1 /\ WSmax = 2
    /\ arg_j = 1 /\ due /\ arg_L = 2 * MaxNorm

\* a step of the controller is a call of __call__
IsCall == Solving /\ pc' # "returned"

\* C13: a call for j recomputes L if and only if it >= last[j] + stride[j]
\* at entry; a recomputing call sets last[j] to the it of its entry, stored[j]
\* to the new L, and returns slack / L for the new L (the quotient, whatever
\* it does with L = 0).
C13_RecomputeWhenDue ==
    [][IsCall =>
          /\ due' <=> (it >= last[arg_j'] + stride[arg_j'])
          /\ due' =>
                /\ last'[arg_j'] = it
                /\ stored'[arg_j'] = arg_L'
                /\ \/ ret' = <<slack, SlackDen * arg_L'>>
                   \/ exc' = "ZeroDivisionError"]_vars

\* C14: a call for j that is not due leaves stride, last and stored of both
\* factors as they are and returns what the previous call for j returned (a
\* zero stored[j] is divided by again); it adds exactly 1 to it when j is
\* advance_index and changes nothing of the controller otherwise.
C14_CachedCallFrame ==
    [][(IsCall /\ ~due') =>
          /\ stride' = stride /\ last' = last /\ stored' = stored
          /\ stored[arg_j'] # 0 => ret' = returned[arg_j']
          /\ stored[arg_j'] = 0 => (ret' = <<>> \/ ret' = <<slack, 0>>)
          /\ it' = IF arg_j' = advance_index THEN it + 1 ELSE it
          /\ arg_j' # advance_index => UNCHANGED <<config, state>>]_vars
C14_Witness ==
    /\ Solving /\ arg_j = advance_index /\ ~due
    /\ ret # <<>> /\ ret[2] > 0 /\ arg_L # stored[arg_j]
    /\ it = last[arg_j] + stride[arg_j]

C16_ZeroStoredDivides ==
    [][IsCall =>
          /\ (due' /\ it' > 1 /\ slack < SlackDen /\ stored[arg_j'] = 0) =>
                /\ "rel_error" \in div0'
                /\ stride' = stride
                /\ stored'[arg_j'] = arg_L'
          /\ stored'[arg_j'] = 0 =>
                /\ "step" \in div0'
                /\ ret' = <<slack, 0>> \/ exc' = "ZeroDivisionError"]_vars
C16_Witness ==
    /\ Solving /\ arg_j \in Factor /\ due
    /\ it > 1 /\ slack < SlackDen
    /\ div0 = {"rel_error", "step"}
    /\ stored[arg_j] = 0 /\ ret = <<slack, 0>>

\* C17: after any sequence of calls, it is the number of calls made with
\* j == advance_index, and advance_index is the last element of update_order
\* (1 when update_order is None).  A sweep of the solver ends with the call
\* of the last factor of update_order, so that it counts the completed sweeps.
C17_ItCountsAdvanceCalls ==
    pc \in {"solving", "raised"} =>
        /\ advance_index = IF frame.update_order = <<>>
                           THEN 1
                           ELSE frame.update_order[Len(frame.update_order)]
        /\ it = adv_calls
C17_Witness ==
    /\ Solving /\ frame.update_order = <<1, 0>>
    /\ arg_j = 1 /\ ~due
    /\ it = InitMaxIt /\ adv_calls = InitMaxIt

\* C18: at the return of every call for j, it - last[j] <= stride[j]: the L
\* behind the returned step was computed at most stride[j], hence at most
\* max_stride, counter values earlier, for any call sequence.
C18_StalenessBound ==
    Returned =>
        /\ it - last[arg_j] <= stride[arg_j]
        /\ it - last[arg_j] <= max_stride
C18_Witness ==
    /\ Returned /\ ~due
    /\ stride[arg_j] > 1
    /\ it - last[arg_j] = stride[arg_j]

\* C19: a call for j never modifies stride[k], last[k] or stored[k] of the
\* other factor k; of what a call writes, only the counter it is shared by
\* the two factors.
C19_FactorIsolation ==
    [][IsCall =>
          /\ \A k \in Factor \ {arg_j'} :
                /\ stride'[k] = stride[k]
                /\ last'[k] = last[k]
                /\ stored'[k] = stored[k]
          /\ UNCHANGED config]_vars
C19_Witness ==
    /\ Solving /\ arg_j \in Factor /\ due
    /\ stride[arg_j] > 1 /\ stride[1 - arg_j] = 1
    /\ last[1 - arg_j] >= 0 /\ last[1 - arg_j] < last[arg_j]
    /\ stored[1 - arg_j] # NONE /\ stored[1 - arg_j] # stored[arg_j]

\* C20: with slack = 1 stride[0] and stride[1] stay 1 in every reachable
\* state, whatever L is; every call for the advance_index factor recomputes
\* L, and so does every call that follows a call for the other factor (all
\* calls, when the solver alternates between the factors).
C20_NoCachingAtFullSlack ==
    /\ [](Solving /\ slack = SlackDen =>
             /\ \A k \in Factor : stride[k] = 1
             /\ arg_j = advance_index => due)
    /\ [][(IsCall /\ slack = SlackDen /\ arg_j' # arg_j) => due']_vars
C20_Witness ==
    /\ Solving /\ slack = SlackDen
    /\ arg_j \in Factor /\ arg_j # advance_index /\ due
    /\ it >= 3 /\ last[arg_j] = it /\ last[advance_index] = it - 1
    /\ stored[advance_index] > 0 /\ stored[arg_j] > stored[advance_index]
    /\ \A k \in Factor : stride[k] = 1

====
